---- MODULE Spec2Model ----
(***************************************************************************)
(* Model of abbr.py: class Document.  Text is a sequence of characters,    *)
(* each character a one-element string; "TAB" and "NL" stand for the tab   *)
(* and the newline character.  The state is the instance's attributes      *)
(* together with the last call made on it and what that call returned.     *)
(***************************************************************************)
EXTENDS Integers, Sequences, FiniteSets, TLC

VARIABLES doc_xml,        \* word/document.xml of the DOCX file self.doc
          content,        \* self.content
          permissive,     \* self.permissive
          db_type,        \* self.db_type
          parsers,        \* self.parsers
          abbreviations,  \* self.abbreviations, NoAttr until import_database
          op,             \* the last method called on the instance
          arg,            \* the argument of that call (get_top's abbr_match)
          ret,            \* what that call returned or raised
          engine_in,      \* search_database: abbr |-> the results list given to the engine
          last_search,    \* what the latest search_database call since the last
                          \* import_database returned or raised
          db_read,        \* the text the latest import_database read from the file
          imports,        \* import_database calls that returned, counted to MaxCount
          searches        \* search_database calls since the last import, likewise

vars == <<doc_xml, content, permissive, db_type, parsers, abbreviations,
          op, arg, ret, engine_in, last_search,
          db_read, imports, searches>>

self_attrs == <<content, permissive, db_type, parsers, abbreviations>>

----------------------------------------------------------------------------
(* Bounds of the model. *)
MaxXmlLen == 5    \* length of a raw markup text
MaxTextLen == 5   \* length of a document text given to find_abbr
MaxTokLen == 1    \* length of the token inside the document's parenthetical
MaxDbLen == 3     \* length of a database text
MaxCount == 2     \* the call counters stop counting here

count(n) == IF n < MaxCount THEN n + 1 ELSE n

Str(A, n) == UNION {[1..k -> A] : k \in 0..n}

XmlAlphabet == {"<", ">", "a", "NL"}
TextAlphabet == {"(", ")", "a", "s", "1", "_"}
TokAlphabet == {"A", "s"}
DbAlphabet == {"a", "TAB", "NL"}

XmlStrings == Str(XmlAlphabet, MaxXmlLen)
TextStrings == Str(TextAlphabet, MaxTextLen)
TokenDocs == {<<"(">> \o t \o <<")">> : t \in Str(TokAlphabet, MaxTokLen)}
DbTexts == Str(DbAlphabet, MaxDbLen)
DbTypes == {"adam", "other"}

----------------------------------------------------------------------------
(* Character classes of the regular expressions. *)
Digits == {"0", "1", "2", "3", "4", "5", "6", "7", "8", "9"}
LowerCase == {"a", "s"}
UpperCase == {"A", "S"}
IsDigit(c) == c \in Digits                            \* \d
IsLetter(c) == c \in LowerCase \cup UpperCase         \* [a-z] under re.IGNORECASE
IsWord(c) == IsLetter(c) \/ IsDigit(c) \/ c = "_"     \* \w
fold(c) == IF c = "A" THEN "a" ELSE IF c = "S" THEN "s" ELSE c   \* re.IGNORECASE

NoAttr == <<"NoAttr">>     \* an attribute that was never assigned
Returned(v) == [kind |-> "value", val |-> v, err |-> "none"]
Raised(e) == [kind |-> "error", val |-> <<>>, err |-> e]
NoCall == [kind |-> "none", val |-> <<>>, err |-> "none"]

----------------------------------------------------------------------------
(* cleanup: re.sub of the pattern  <(.|NL)*?>  by one blank *)

\* a tag whose body may not hold a newline: the pattern  <.*?>
TagEndOneLine(data, i) ==
    IF \E j \in (i+1)..Len(data) :
           data[j] = ">" /\ \A k \in (i+1)..(j-1) : data[k] \notin {">", "NL"}
    THEN CHOOSE j \in (i+1)..Len(data) :
           data[j] = ">" /\ \A k \in (i+1)..(j-1) : data[k] \notin {">", "NL"}
    ELSE 0

\* the end of the shortest match of  <(.|NL)*?>  starting at data[i], 0 if none
TagEnd(data, i) ==
    IF \E j \in (i+1)..Len(data) : data[j] = ">"
    THEN CHOOSE j \in (i+1)..Len(data) :
           data[j] = ">" /\ \A k \in (i+1)..(j-1) : data[k] # ">"
    ELSE 0

RECURSIVE sub_tags(_, _)
sub_tags(data, i) ==
    IF i > Len(data) THEN <<>>
    ELSE IF data[i] = "<" /\ TagEnd(data, i) # 0
         THEN <<" ">> \o sub_tags(data, TagEnd(data, i) + 1)
         ELSE <<data[i]>> \o sub_tags(data, i + 1)

cleanup(data) == sub_tags(data, 1)

\* opener: the document.xml part of the DOCX file
opener == doc_xml

read == cleanup(opener)

----------------------------------------------------------------------------
(* find_abbr: findall of the pattern  ( digits* letter word* )  with the   *)
(* parentheses literal and the token between them the group abb            *)

\* the positions e where a match of the pattern starting at i can end its group:
\* an opening parenthesis, d digits, a letter, word characters up to e, a closing one
abb_ends(text, i) ==
    {e \in (i+1)..(Len(text)-1) :
        /\ text[i] = "("
        /\ \E d \in 0..(e-i-1) :
              /\ \A q \in (i+1)..(i+d) : IsDigit(text[q])
              /\ IsLetter(text[i+d+1])
              /\ \A q \in (i+d+2)..e : IsWord(text[q])
        /\ text[e+1] = ")"}

RECURSIVE findall_abbrs(_, _)
findall_abbrs(text, i) ==
    IF i > Len(text) THEN <<>>
    ELSE IF abb_ends(text, i) # {}
         THEN LET e == CHOOSE x \in abb_ends(text, i) : TRUE
              IN  <<SubSeq(text, i+1, e)>> \o findall_abbrs(text, e + 2)
         ELSE findall_abbrs(text, i + 1)

\* tools.plurals: the token and its possible singular form
plurals(x) ==
    IF Len(x) > 0 /\ x[Len(x)] = "s" THEN <<x, SubSeq(x, 1, Len(x) - 1)>> ELSE <<x>>

Range(s) == {s[i] : i \in 1..Len(s)}

find_abbr(text) == UNION {Range(plurals(x)) : x \in Range(findall_abbrs(text, 1))}

----------------------------------------------------------------------------
(* search_database *)

\* the registry __init__ builds; the delimiter is the pattern text for a tab
Registry == [adam |-> [engine |-> "adam", delimiter |-> <<"TAB">>]]

\* a strict pattern that forgets the delimiter
search_string_no_delimiter(abbr, is_permissive, delimiter) == abbr

\* the literal text the pattern requires at the start of a line: the pattern is
\* ^ abbr .*? NL  when permissive and  ^ abbr delimiter .*? NL  otherwise
search_string(abbr, is_permissive, delimiter) ==
    IF is_permissive THEN abbr ELSE abbr \o delimiter

\* the end of the match of  ^ prefix .*? NL  (re.MULTILINE, re.IGNORECASE) that
\* starts at text[i], 0 if there is none
line_end(prefix, text, i) ==
    IF /\ (i = 1 \/ text[i-1] = "NL")
       /\ i + Len(prefix) - 1 <= Len(text)
       /\ \A k \in 1..Len(prefix) : fold(text[i+k-1]) = fold(prefix[k])
       /\ \E j \in (i + Len(prefix))..Len(text) : text[j] = "NL"
    THEN CHOOSE j \in (i + Len(prefix))..Len(text) :
            text[j] = "NL" /\ \A k \in (i + Len(prefix))..(j-1) : text[k] # "NL"
    ELSE 0

\* re.findall: the matches from left to right, none overlapping
RECURSIVE findall_lines(_, _, _)
findall_lines(prefix, text, i) ==
    IF i > Len(text) THEN <<>>
    ELSE IF line_end(prefix, text, i) # 0
         THEN <<SubSeq(text, i, line_end(prefix, text, i))>>
                 \o findall_lines(prefix, text, line_end(prefix, text, i) + 1)
         ELSE findall_lines(prefix, text, i + 1)

\* parsers.adam: one (score, fields) entry per line, the highest score first
score(line) == Len(line)
fields(line) == SelectSeq(line, LAMBDA c : c # "NL")
entry(line) == <<score(line), fields(line)>>

RECURSIVE insert_by_score(_, _)
insert_by_score(e, ranked) ==
    IF ranked = <<>> THEN <<e>>
    ELSE IF e[1] > Head(ranked)[1] THEN <<e>> \o ranked
         ELSE <<Head(ranked)>> \o insert_by_score(e, Tail(ranked))

RECURSIVE adam(_)
adam(results) ==
    IF results = <<>> THEN <<>>
    ELSE insert_by_score(entry(Head(results)), adam(Tail(results)))

engine(name, results) == adam(results)

\* an assignment that drops a candidate without matching lines
store_if_found(matches, abbr, value) ==
    IF value = <<>> THEN matches
    ELSE [k \in DOMAIN matches \cup {abbr} |-> IF k = abbr THEN value ELSE matches[k]]

\* matches[abbr] = value
store(matches, abbr, value) ==
    [k \in DOMAIN matches \cup {abbr} |-> IF k = abbr THEN value ELSE matches[k]]

\* a loop body that reads a missing self.abbreviations as the empty text
RECURSIVE search_loop_default_text(_, _, _)
search_loop_default_text(todo, matches, given) ==
    IF todo = {} THEN [out |-> Returned(matches), given |-> given]
    ELSE LET abbr == CHOOSE x \in todo : TRUE
         IN  IF db_type \notin DOMAIN parsers
             THEN [out |-> Raised("KeyError"), given |-> given]
             ELSE LET text == IF abbreviations = NoAttr THEN <<>> ELSE abbreviations
                      results == findall_lines(
                          search_string(abbr, permissive, parsers[db_type].delimiter),
                          text, 1)
                  IN  search_loop_default_text(todo \ {abbr},
                          store(matches, abbr, engine(parsers[db_type].engine, results)),
                          store(given, abbr, results))

\* the for loop over the candidates not yet searched; given records the results
\* list each engine call received
RECURSIVE search_loop(_, _, _)
search_loop(todo, matches, given) ==
    IF todo = {} THEN [out |-> Returned(matches), given |-> given]
    ELSE LET abbr == CHOOSE x \in todo : TRUE
         IN  IF ~permissive /\ db_type \notin DOMAIN parsers
             THEN [out |-> Raised("KeyError"), given |-> given]
             ELSE IF abbreviations = NoAttr
             THEN [out |-> Raised("AttributeError"), given |-> given]
             ELSE IF db_type \notin DOMAIN parsers
             THEN [out |-> Raised("KeyError"), given |-> given]
             ELSE LET results == findall_lines(
                          search_string(abbr, permissive, parsers[db_type].delimiter),
                          abbreviations, 1)
                  IN  search_loop(todo \ {abbr},
                          store(matches, abbr, engine(parsers[db_type].engine, results)),
                          store(given, abbr, results))

search_database == search_loop(find_abbr(content), <<>>, <<>>)

----------------------------------------------------------------------------
(* get_top *)

\* a selector that answers an empty list with an empty value
get_top_or_default(abbr_match) ==
    IF Len(abbr_match) = 0 THEN Returned(<<>>) ELSE Returned(abbr_match[1][2])

\* abbr_match[0][1]
get_top(abbr_match) ==
    IF Len(abbr_match) = 0 THEN Raised("IndexError") ELSE Returned(abbr_match[1][2])

----------------------------------------------------------------------------
(* import_database *)

\* an import that adds the file to the text already held
import_appending(file_text) ==
    IF abbreviations = NoAttr THEN file_text ELSE abbreviations \o file_text

\* open(self.database).read()
import_database(file_text) == file_text

----------------------------------------------------------------------------
(* The instance after __init__, and the calls on it. *)

InitOn(Docs) ==
    /\ doc_xml \in Docs
    /\ content = read
    /\ permissive \in BOOLEAN
    /\ db_type \in DbTypes
    /\ parsers = Registry
    /\ abbreviations = NoAttr
    /\ op = "__init__"
    /\ arg = <<>>
    /\ ret = NoCall
    /\ engine_in = <<>>
    /\ last_search = NoCall
    /\ db_read = NoAttr
    /\ imports = 0
    /\ searches = 0

Init == InitOn(TokenDocs)
InitCleanup == InitOn(XmlStrings)
InitExtract == InitOn(TextStrings)

Read ==
    /\ op' = "read"
    /\ arg' = <<>>
    /\ ret' = Returned(read)
    /\ UNCHANGED <<doc_xml, self_attrs, engine_in, last_search, db_read, imports, searches>>

\* a find_abbr that keeps the text without the parentheses it has matched on
FindAbbrStripping ==
    /\ op' = "find_abbr"
    /\ arg' = <<>>
    /\ ret' = Returned(find_abbr(content))
    /\ content' = SelectSeq(content, LAMBDA c : c \notin {"(", ")"})
    /\ UNCHANGED <<doc_xml, permissive, db_type, parsers, abbreviations,
                   engine_in, last_search, db_read, imports, searches>>

FindAbbr ==
    /\ op' = "find_abbr"
    /\ arg' = <<>>
    /\ ret' = Returned(find_abbr(content))
    /\ UNCHANGED <<doc_xml, self_attrs, engine_in, last_search, db_read, imports, searches>>

ImportDatabase ==
    \E file_text \in DbTexts :
        /\ abbreviations' = import_database(file_text)
        /\ op' = "import_database"
        /\ arg' = file_text
        /\ ret' = Returned(<<>>)
        /\ engine_in' = <<>>
        /\ last_search' = NoCall
        /\ db_read' = file_text
        /\ imports' = count(imports)
        /\ searches' = 0
        /\ UNCHANGED <<doc_xml, content, permissive, db_type, parsers>>

\* the database file cannot be opened
ImportDatabaseFails ==
    /\ op' = "import_database"
    /\ arg' = <<>>
    /\ ret' = Raised("IOError")
    /\ UNCHANGED <<doc_xml, self_attrs, engine_in, last_search, db_read, imports, searches>>

SearchDatabase ==
    /\ op' = "search_database"
    /\ arg' = <<>>
    /\ ret' = search_database.out
    /\ engine_in' = search_database.given
    /\ last_search' = search_database.out
    /\ searches' = count(searches)
    /\ UNCHANGED <<doc_xml, self_attrs, db_read, imports>>

GetTop ==
    /\ last_search.kind = "value"
    /\ \E abbr \in DOMAIN last_search.val :
          /\ arg' = last_search.val[abbr]
          /\ ret' = get_top(last_search.val[abbr])
    /\ op' = "get_top"
    /\ UNCHANGED <<doc_xml, self_attrs, engine_in, last_search, db_read, imports, searches>>

Next ==
    \/ Read
    \/ FindAbbr
    \/ ImportDatabase
    \/ ImportDatabaseFails
    \/ SearchDatabase
    \/ GetTop

Spec == Init /\ [][Next]_vars

NextCleanup == Read
SpecCleanup == InitCleanup /\ [][NextCleanup]_vars

NextExtract == FindAbbr
SpecExtract == InitExtract /\ [][NextExtract]_vars

----------------------------------------------------------------------------
(* The vocabulary of the properties: the lines of a text, found by         *)
(* splitting it at its newlines.                                           *)

\* the lines of text from position b on, in order: each the run of characters
\* up to the next newline or the end of text, with whether a newline ends it
RECURSIVE LinesFrom(_, _)
LinesFrom(text, b) ==
    IF b > Len(text) THEN <<>>
    ELSE LET stops == {j \in b..Len(text) : text[j] = "NL"}
             e == IF stops = {} THEN Len(text) + 1
                  ELSE CHOOSE j \in stops : \A k \in stops : j <= k
         IN  <<[body |-> SubSeq(text, b, e - 1), terminated |-> e <= Len(text)]>>
                 \o LinesFrom(text, e + 1)

Lines(text) == LinesFrom(text, 1)

StartsWith(line, prefix) ==
    /\ Len(line) >= Len(prefix)
    /\ \A k \in 1..Len(prefix) : fold(line[k]) = fold(prefix[k])

Bodies(lines) == [i \in 1..Len(lines) |-> lines[i].body]
Unterminate(results) == [i \in 1..Len(results) |-> fields(results[i])]
Delimiter == <<"TAB">>

Searched == op = "search_database" /\ ret.kind = "value"

\* the lines of the database text that start with prefix
LinesStarting(prefix) ==
    SelectSeq(Lines(abbreviations), LAMBDA l : StartsWith(l.body, prefix))
\* those of them that a newline ends
EndedLinesStarting(prefix) ==
    SelectSeq(Lines(abbreviations), LAMBDA l : l.terminated /\ StartsWith(l.body, prefix))

----------------------------------------------------------------------------
\* C1: a strict search for a candidate matches only database lines that start,
\* case-insensitively, with the candidate and then the delimiter, and every such
\* line that a newline ends; a permissive search matches only lines that start
\* with the candidate, every such line that a newline ends, and with them every
\* line the strict pattern matches.
C1_StrictAndPermissive ==
    Searched =>
        \A abbr \in DOMAIN engine_in :
            LET got == Range(Unterminate(engine_in[abbr]))
                strict == abbr \o Delimiter
            IN  IF permissive
                THEN /\ got \subseteq Range(Bodies(LinesStarting(abbr)))
                     /\ Range(Bodies(EndedLinesStarting(abbr))) \subseteq got
                     /\ Range(findall_lines(strict, abbreviations, 1))
                            \subseteq Range(engine_in[abbr])
                ELSE /\ got \subseteq Range(Bodies(LinesStarting(strict)))
                     /\ Range(Bodies(EndedLinesStarting(strict))) \subseteq got

\* a permissive search has matched a line on which the delimiter does not follow
\* the candidate
C1_Witness ==
    /\ Searched
    /\ permissive
    /\ \E abbr \in DOMAIN engine_in :
          \E i \in 1..Len(engine_in[abbr]) :
              ~StartsWith(engine_in[abbr][i], abbr \o Delimiter)

\* C2: the list given to the engine for a candidate holds all the lines of the
\* database text that match under the active policy, the last line whether or
\* not a newline ends it, in their order in the text.
C2_AllLinesInOrder ==
    Searched =>
        \A abbr \in DOMAIN engine_in :
            Unterminate(engine_in[abbr]) =
                Bodies(LinesStarting(search_string(abbr, permissive, Delimiter)))

\* the part of C2 the code keeps: the list holds, in their order in the text,
\* the matching lines that a newline ends
C2_EndedLinesInOrder ==
    Searched =>
        \A abbr \in DOMAIN engine_in :
            Unterminate(engine_in[abbr]) =
                Bodies(EndedLinesStarting(search_string(abbr, permissive, Delimiter)))

\* C3: the keys of the returned mapping are exactly the candidates of find_abbr;
\* a candidate that no line of the database text matches is a key with an empty
\* ranked list, and a search with a registered format on an imported database
\* raises nothing.
C3_EveryCandidateIsAKey ==
    /\ Searched =>
          /\ DOMAIN ret.val = find_abbr(content)
          /\ \A abbr \in find_abbr(content) :
                EndedLinesStarting(search_string(abbr, permissive, Delimiter)) = <<>>
                    => abbr \in DOMAIN ret.val /\ ret.val[abbr] = <<>>
    /\ (op = "search_database" /\ abbreviations # NoAttr /\ db_type \in DOMAIN parsers)
          => ret.kind = "value"

\* a search of a non-empty database text returned a candidate without entries
C3_Witness ==
    /\ Searched
    /\ abbreviations # <<>>
    /\ \E abbr \in DOMAIN ret.val : ret.val[abbr] = <<>>

\* C4: a search on an instance whose database format is not registered raises
\* an error and returns no mapping, whatever the content and the policy.
C4_UnknownFormatFails ==
    (op = "search_database" /\ db_type \notin DOMAIN parsers) => ret.kind = "error"

\* C5: get_top returns the fields of the first entry of a non-empty ranked list
\* and raises an error for an empty one.
C5_GetTop ==
    op = "get_top" =>
        IF arg = <<>>
        THEN ret.kind = "error"
        ELSE ret.kind = "value" /\ ret.val = Head(arg)[2]

\* get_top was given the empty ranked list of a candidate without matches
C5_Witness == op = "get_top" /\ arg = <<>> /\ ret.kind = "error"

HasTag(text) ==
    \E i \in 1..Len(text) : \E j \in (i+1)..Len(text) : text[i] = "<" /\ text[j] = ">"

\* position k of text lies in a tag: a "<" at or before it, no ">" from there up
\* to k, and a ">" at k or after it
InTag(text, k) ==
    /\ \E i \in 1..k : text[i] = "<" /\ \A q \in i..(k-1) : text[q] # ">"
    /\ \E j \in k..Len(text) : text[j] = ">"

\* text with every character outside a tag kept and every tag, which ends with
\* the one ">" it holds, made a blank
TagsBlanked(text) ==
    LET marked == [k \in 1..Len(text) |->
                      IF ~InTag(text, k) THEN text[k]
                      ELSE IF text[k] = ">" THEN " " ELSE "dropped"]
    IN  SelectSeq(marked, LAMBDA c : c # "dropped")

\* C6: the output of cleanup holds no "<" with a ">" after it: it is the input
\* with every tag replaced by one blank and everything outside the tags kept.
\* So the text before the first "<" and after the last ">" is kept as it is,
\* and an input without a tag is returned unchanged.
C6_NoTagLeft ==
    /\ ~HasTag(content)
    /\ content = TagsBlanked(doc_xml)
    /\ op = "read" => ret.val = content
    /\ ~HasTag(doc_xml) => content = doc_xml
    /\ HasTag(doc_xml) => \E i \in 1..Len(content) : content[i] = " "
    /\ Len(content) <= Len(doc_xml)
    /\ \A n \in 1..Len(doc_xml) :
          (\A k \in 1..n : doc_xml[k] # "<")
              => Len(content) >= n /\ SubSeq(content, 1, n) = SubSeq(doc_xml, 1, n)
    /\ \A n \in 1..Len(doc_xml) :
          (\A k \in (Len(doc_xml) - n + 1)..Len(doc_xml) : doc_xml[k] # ">")
              => /\ Len(content) >= n
                 /\ SubSeq(content, Len(content) - n + 1, Len(content))
                       = SubSeq(doc_xml, Len(doc_xml) - n + 1, Len(doc_xml))

\* read has cleaned a text with a tag that spans two lines
C6_Witness ==
    /\ op = "read"
    /\ \E i \in 1..Len(doc_xml) : \E j \in (i+2)..Len(doc_xml) :
          /\ doc_xml[i] = "<"
          /\ doc_xml[j] = ">"
          /\ \A k \in (i+1)..(j-1) : doc_xml[k] # ">"
          /\ \E k \in (i+1)..(j-1) : doc_xml[k] = "NL"

C7_RawMatchesAreWords ==
    \A c \in Range(findall_abbrs(content, 1)) :
        /\ c # <<>>
        /\ \A i \in 1..Len(c) : IsWord(c[i])
        /\ \E i \in 1..Len(c) : IsLetter(c[i])
        /\ c \in find_abbr(content)

\* C8: a search repeated with no import in between returns what the search
\* before it returned, and a returned mapping has the candidates of the content
\* as its keys and, as entries, only lines of the text the latest import read.
C8_Repeat ==
    (op' = "search_database" /\ searches > 0) => ret' = last_search
C8_Fresh ==
    Searched =>
        /\ DOMAIN ret.val = find_abbr(content)
        /\ \A abbr \in DOMAIN ret.val :
              \A i \in 1..Len(ret.val[abbr]) :
                  \E l \in Range(Lines(db_read)) :
                      /\ l.body = ret.val[abbr][i][2]
                      /\ StartsWith(l.body, abbr)
C8_SearchIsRecomputed == [][C8_Repeat]_vars /\ []C8_Fresh

\* a search was repeated after a second import and found entries
C8_Witness ==
    /\ Searched
    /\ imports >= 2
    /\ searches >= 2
    /\ \E abbr \in DOMAIN ret.val : ret.val[abbr] # <<>>

\* C9: find_abbr, search_database and get_top leave the attributes of the
\* instance as they were, returning or raising; the content never changes and
\* the database text changes only in an import_database call that returns.
C9_Frame ==
    /\ op' \in {"find_abbr", "search_database", "get_top"} => UNCHANGED self_attrs
    /\ content' = content
    /\ abbreviations' # abbreviations => op' = "import_database" /\ ret'.kind = "value"
C9_CallsKeepTheInstance == [][C9_Frame]_vars

\* a search on an imported database raised an error and the text is still there
C9_Witness ==
    /\ op = "search_database"
    /\ ret.kind = "error"
    /\ abbreviations # NoAttr
    /\ content = read

\* C10: the database text is undefined until an import_database call returns;
\* a search before that raises an error when there are candidates and returns
\* the empty mapping when there are none, and no search returns a non-empty
\* mapping before an import.
C10_ImportBeforeSearch ==
    /\ imports = 0 <=> abbreviations = NoAttr
    /\ (op = "search_database" /\ imports = 0 /\ find_abbr(content) # {})
          => ret.kind = "error"
    /\ (Searched /\ imports = 0) => find_abbr(content) = {} /\ ret.val = <<>>
    /\ (Searched /\ DOMAIN ret.val # {}) => imports > 0

\* a search before any import raised an error
C10_Witness ==
    /\ op = "search_database"
    /\ imports = 0
    /\ find_abbr(content) # {}
    /\ ret.kind = "error"
====
